---- MODULE Spec2Model ----
(***************************************************************************)
(* Threaded OCR pipeline of utils/full_multi_updated2.py: rasterize a PDF  *)
(* into page images, run one process_single_page task per image on a       *)
(* ThreadPoolExecutor, collect the futures with as_completed, sort the     *)
(* collected entries by page_number and save them.                         *)
(*                                                                         *)
(* A text is a sequence of Unicode code points.  An image path             *)
(* "page_k.png" is represented by the number k.                            *)
(***************************************************************************)
EXTENDS Integers, Sequences, FiniteSets, TLC

\* ------------------------------------------------------------------ bounds
MaxPages == 3
MaxW == 2
MaxTextLen == 3
MaxReruns == 2
MaxShared == 1

\* --------------------------------------------------------------- constants
CLEAN_IMAGES == TRUE
NL == 10
SP == 32

\* code points for which str.isspace() holds (str.strip / str.split)
WhiteSpace ==
  {9, 10, 11, 12, 13, 28, 29, 30, 31, 32, 133, 160, 5760} \cup (8192..8202)
    \cup {8232, 8233, 8239, 8287, 12288}

\* ------------------------------------------------------------ environment
\* texts the OCR service may return for a page
OCRTexts == { <<SP, 72, 105, SP, NL, NL, 2835, NL>> }
\* str(e) of the exceptions the OCR call may raise
ErrMsgs == { "", "quota exceeded" }
OpenErrMsg == "cannot open image"
PostErrMsg == "bad response"

\* outcomes of perform_ocr_on_image: io.open raises, the service call
\* raises, the service returns a text, the service returns a response the
\* post-processing cannot handle
OCROutcomes ==
  { [kind |-> "open_raise", msg |-> OpenErrMsg] }
    \cup { [kind |-> "raise", msg |-> m] : m \in ErrMsgs }
    \cup { [kind |-> "text", text |-> t] : t \in OCRTexts }
    \cup { [kind |-> "malformed", msg |-> PostErrMsg] }

NoResponse == [kind |-> "none"]
NoResult == [none |-> TRUE]

\* ---------------------------------------------------------- text helpers
SetMin(S) == CHOOSE x \in S : \A y \in S : x <= y
SetMax(S) == CHOOSE x \in S : \A y \in S : x >= y

\* str.lstrip()
Strip_left(s) ==
  LET keep == { i \in 1..Len(s) : s[i] \notin WhiteSpace }
  IN  IF keep = {} THEN <<>> ELSE SubSeq(s, SetMin(keep), Len(s))

\* str.strip()
Strip(s) ==
  LET keep == { i \in 1..Len(s) : s[i] \notin WhiteSpace }
  IN  IF keep = {} THEN <<>> ELSE SubSeq(s, SetMin(keep), SetMax(keep))

\* str.split('\n')
RECURSIVE Split(_)
Split(s) ==
  LET at == { i \in 1..Len(s) : s[i] = NL }
  IN  IF at = {} THEN <<s>>
      ELSE <<SubSeq(s, 1, SetMin(at) - 1)>>
             \o Split(SubSeq(s, SetMin(at) + 1, Len(s)))

\* sep.join(parts)
RECURSIVE Join(_, _)
Join(parts, sep) ==
  IF parts = <<>> THEN <<>>
  ELSE IF Len(parts) = 1 THEN parts[1]
  ELSE parts[1] \o <<sep>> \o Join(Tail(parts), sep)

\* [line.strip() for line in full_text.split('\n') if line.strip()]
Lines(full_text) ==
  LET raw == Split(full_text)
      stripped == [i \in 1..Len(raw) |-> Strip(raw[i])]
  IN  SelectSeq(stripped, LAMBDA l : l # <<>>)

\* len(s.split())
WordCount(s) ==
  Cardinality({ i \in 1..Len(s) :
                  /\ s[i] \notin WhiteSpace
                  /\ (i = 1 \/ s[i - 1] \in WhiteSpace) })

IsAsciiAlpha(c) == c \in (65..90) \cup (97..122)

\* as detect_languages_in_text, with every ASCII character counted as
\* Latin
detect_languages_in_text_ascii(text) ==
  LET chars == { text[i] : i \in 1..Len(text) }
      odia == IF \E c \in chars : 2816 <= c /\ c <= 2943
              THEN <<"Odia">> ELSE <<>>
      latin == IF \E c \in chars : c < 128
               THEN <<"Latin_Script">> ELSE <<>>
      detected_langs == odia \o latin
  IN  IF detected_langs # <<>> THEN detected_langs ELSE <<"Unknown">>

\* as detect_languages_in_text, with the Odia range starting one code
\* point late
detect_languages_in_text_late(text) ==
  LET chars == { text[i] : i \in 1..Len(text) }
      odia == IF \E c \in chars : 2816 < c /\ c <= 2943
              THEN <<"Odia">> ELSE <<>>
      latin == IF \E c \in chars : IsAsciiAlpha(c)
               THEN <<"Latin_Script">> ELSE <<>>
      detected_langs == odia \o latin
  IN  IF detected_langs # <<>> THEN detected_langs ELSE <<"Unknown">>

detect_languages_in_text(text) ==
  LET chars == { text[i] : i \in 1..Len(text) }
      odia == IF \E c \in chars : 2816 <= c /\ c <= 2943
              THEN <<"Odia">> ELSE <<>>
      latin == IF \E c \in chars : IsAsciiAlpha(c)
               THEN <<"Latin_Script">> ELSE <<>>
      detected_langs == odia \o latin
  IN  IF detected_langs # <<>> THEN detected_langs ELSE <<"Unknown">>

\* the script blocks of detect_languages_in_text of the sequential
\* variant, in the order of its checks: label, code point ranges
Blocks ==
  << [label |-> "Devanagari_Script", ranges |-> {<<2304, 2431>>}],
     [label |-> "Odia", ranges |-> {<<2816, 2943>>}],
     [label |-> "Bengali_Assamese", ranges |-> {<<2432, 2559>>}],
     [label |-> "Tamil", ranges |-> {<<2944, 3071>>}],
     [label |-> "Telugu", ranges |-> {<<3072, 3199>>}],
     [label |-> "Malayalam", ranges |-> {<<3328, 3455>>}],
     [label |-> "Kannada", ranges |-> {<<3200, 3327>>}],
     [label |-> "Gujarati", ranges |-> {<<2688, 2815>>}],
     [label |-> "Punjabi", ranges |-> {<<2560, 2687>>}],
     [label |-> "Chinese", ranges |-> {<<19968, 40959>>}],
     [label |-> "Japanese", ranges |-> {<<12352, 12447>>, <<12448, 12543>>}],
     [label |-> "Korean", ranges |-> {<<44032, 55215>>}],
     [label |-> "Arabic", ranges |-> {<<1536, 1791>>}],
     [label |-> "Russian", ranges |-> {<<1024, 1279>>}] >>

InBlock(c, b) == \E r \in b.ranges : r[1] <= c /\ c <= r[2]

\* detect_languages_in_text of the sequential variant
detect_languages_in_text_all(text) ==
  LET chars == { text[i] : i \in 1..Len(text) }
      hit == SelectSeq(Blocks, LAMBDA b : \E c \in chars : InBlock(c, b))
      scripts == [i \in 1..Len(hit) |-> hit[i].label]
      latin == IF \E c \in chars : IsAsciiAlpha(c)
               THEN <<"Latin_Script">> ELSE <<>>
      detected_langs == scripts \o latin
  IN  IF detected_langs # <<>> THEN detected_langs ELSE <<"Unknown">>

\* the page_data dict built on the success path of process_single_page
PageData(page_num, full_text) ==
  LET lines == Lines(full_text)
  IN  [ page_number |-> page_num,
        full_text |-> Join(lines, NL),
        word_count |-> IF lines # <<>> THEN WordCount(Join(lines, SP)) ELSE 0,
        has_content |-> lines # <<>>,
        detected_languages |-> detect_languages_in_text(full_text) ]

\* as ErrorEntry, with an empty full_text next to the error
ErrorEntry_with_text(page_num, msg) ==
  [ page_number |-> page_num, error |-> msg, has_content |-> FALSE,
    full_text |-> <<>> ]

\* the dict returned by the except branch of process_single_page
ErrorEntry(page_num, msg) ==
  [ page_number |-> page_num, error |-> msg, has_content |-> FALSE ]

\* what the try/except of process_single_page computes from the outcome of
\* perform_ocr_on_image
PageResult(page_num, r) ==
  IF r.kind = "text" THEN PageData(page_num, r.text)
  ELSE ErrorEntry(page_num, r.msg)

HasError(e) == "error" \in DOMAIN e

\* list.sort(key=lambda p: p['page_number']) : stable
RECURSIVE InsertByPage(_, _)
InsertByPage(e, s) ==
  IF s = <<>> THEN <<e>>
  ELSE IF s[Len(s)].page_number <= e.page_number THEN Append(s, e)
  ELSE Append(InsertByPage(e, SubSeq(s, 1, Len(s) - 1)), s[Len(s)])

RECURSIVE SortByPage(_)
SortByPage(s) ==
  IF s = <<>> THEN <<>>
  ELSE InsertByPage(s[Len(s)], SortByPage(SubSeq(s, 1, Len(s) - 1)))


\* ------------------------------------------------------------------ state
VARIABLES
  pageCount,        \* doc.page_count of the PDF
  max_workers,      \* pool size handed to ThreadPoolExecutor
  pc,               \* position of main
  image_paths,      \* convert_pdf_to_images: the list being built
  image_files,      \* main: the list convert_pdf_to_images returned
  files,            \* k is in files iff page_k.png exists in OUTPUT_DIR
  submitted,        \* number of executor.submit calls that returned
  st,               \* per task: position of its process_single_page call
  response,         \* per task: the outcome of perform_ocr_on_image
  ret,              \* per task: the value its return statement computed
  fut,              \* per task: what its future holds
  ocr_calls,        \* per task: number of document_text_detection calls
  submit_calls,     \* per task: number of executor.submit calls for it
  all_pages_data,   \* main: the collected list
  completion_order, \* page numbers in the order as_completed yielded them
  json_out,         \* content of <name>_complete.json
  txt_out,          \* content of <name>_extracted_text.txt
  artifacts,        \* which of the two output files have been written
  file_ops,         \* per image file: the tasks that opened it, the tasks
                    \* that tested or removed it, the number of removals
  text,             \* a text handed to the text functions
  out,              \* what the text functions returned for it
  saves,            \* number of repeated save_results calls on the batch
  prev_out,         \* the output files as the previous call left them
  http_response,    \* process_pdf_api: the response sent to the client
  hung,             \* pages whose document_text_detection call never returns
  seq_pc,           \* sequential variant: position of its main
  seq_i,            \* sequential variant: iterations of its loop completed
  seq_files,        \* sequential variant: the page images in its directory
  seq_all_pages_data, \* sequential variant: the list its loop builds
  shared_dir,       \* two concurrent runs: per file name of OUTPUT_DIR, the
                    \* run whose page image the file holds, or 0 when absent
  runs              \* two concurrent runs: the state of each run

vars == << pageCount, max_workers, pc, image_paths, image_files, files,
           submitted, st, response, ret, fut, ocr_calls, submit_calls,
           all_pages_data, completion_order, json_out, txt_out, artifacts,
           file_ops, text, out, saves, prev_out, http_response, hung,
           seq_pc, seq_i, seq_files, seq_all_pages_data, shared_dir, runs >>

\* the variables the pipeline run does not touch
rest == << hung, seq_pc, seq_i, seq_files, seq_all_pages_data, shared_dir,
          runs >>
aux == << text, out, saves, prev_out, http_response, rest >>

NoHttpResponse == [status |-> "none"]

Pages == 1..MaxPages

\* the two runs that share OUTPUT_DIR, and the page numbers of a run
Runs == {1, 2}
SharedPages == 1..MaxShared

\* as ImageName, with the run in the name
ImageName_per_run(r, k) == <<r, k>>

\* the name run r gives to the image of its page k: page_k.png,
\* represented by <<0, k>>
ImageName(r, k) == <<0, k>>

\* the file names of OUTPUT_DIR
Names == ({0} \cup Runs) \X SharedPages

\* a run of main that has not started
NoRun ==
  [ pc |-> "idle", pageCount |-> 0, image_paths |-> <<>>,
    st |-> [k \in SharedPages |-> "unsubmitted"],
    ret |-> [k \in SharedPages |-> NoResult],
    fut |-> [k \in SharedPages |-> "pending"],
    all_pages_data |-> <<>> ]

\* no call hangs, the sequential variant and the concurrent runs are not
\* running
RestIdle ==
  /\ hung = {}
  /\ seq_pc = "idle"
  /\ seq_i = 0
  /\ seq_files = {}
  /\ seq_all_pages_data = <<>>
  /\ shared_dir = [f \in Names |-> 0]
  /\ runs = [r \in Runs |-> NoRun]

Init ==
  /\ pageCount \in 1..MaxPages
  /\ max_workers \in 1..MaxW
  /\ pc = "convert"
  /\ image_paths = <<>>
  /\ image_files = <<>>
  /\ files = {}
  /\ submitted = 0
  /\ st = [k \in Pages |-> "unsubmitted"]
  /\ response = [k \in Pages |-> NoResponse]
  /\ ret = [k \in Pages |-> NoResult]
  /\ fut = [k \in Pages |-> "pending"]
  /\ ocr_calls = [k \in Pages |-> 0]
  /\ submit_calls = [k \in Pages |-> 0]
  /\ all_pages_data = <<>>
  /\ completion_order = <<>>
  /\ json_out = <<>>
  /\ txt_out = <<>>
  /\ artifacts = {}
  /\ file_ops = [f \in Pages |-> [readers |-> {}, removers |-> {}, removed |-> 0]]
  /\ text = <<>>
  /\ out = NoResult
  /\ saves = 0
  /\ prev_out = NoResult
  /\ http_response = NoHttpResponse
  /\ RestIdle

\* ------------------------------------------------- convert_pdf_to_images
\* as ConvertPage, but the pages are named from the last to the first
ConvertPage_reversed ==
  /\ pc = "convert"
  /\ Len(image_paths) < pageCount
  /\ files' = files \cup {pageCount - Len(image_paths)}
  /\ image_paths' = Append(image_paths, pageCount - Len(image_paths))
  /\ UNCHANGED << pageCount, max_workers, pc, image_files, submitted, st,
                  response, ret, fut, ocr_calls, submit_calls, all_pages_data,
                  completion_order, json_out, txt_out, artifacts, file_ops, aux >>

\* as ConvertPage, but every page is rendered to the one name page_1.png
ConvertPage_same_name ==
  /\ pc = "convert"
  /\ Len(image_paths) < pageCount
  /\ files' = files \cup {1}
  /\ image_paths' = Append(image_paths, 1)
  /\ UNCHANGED << pageCount, max_workers, pc, image_files, submitted, st,
                  response, ret, fut, ocr_calls, submit_calls, all_pages_data,
                  completion_order, json_out, txt_out, artifacts, file_ops, aux >>

\* one iteration of the rendering loop: page_{n+1}.png is written
ConvertPage ==
  /\ pc = "convert"
  /\ Len(image_paths) < pageCount
  /\ files' = files \cup {Len(image_paths) + 1}
  /\ image_paths' = Append(image_paths, Len(image_paths) + 1)
  /\ UNCHANGED << pageCount, max_workers, pc, image_files, submitted, st,
                  response, ret, fut, ocr_calls, submit_calls, all_pages_data,
                  completion_order, json_out, txt_out, artifacts, file_ops, aux >>

\* as ConvertRaise, but the except branch removes the images written so far
ConvertRaise_cleanup ==
  /\ pc = "convert"
  /\ Len(image_paths) < pageCount
  /\ image_files' = <<>>
  /\ files' = {}
  /\ pc' = "no_images"
  /\ UNCHANGED << pageCount, max_workers, image_paths, submitted, st,
                  response, ret, fut, ocr_calls, submit_calls, all_pages_data,
                  completion_order, json_out, txt_out, artifacts, file_ops, aux >>

\* as ConvertRaise, but the except branch returns the paths produced so far
ConvertRaise_partial ==
  /\ pc = "convert"
  /\ Len(image_paths) < pageCount
  /\ image_files' = image_paths
  /\ pc' = IF image_paths = <<>> THEN "no_images" ELSE "submit"
  /\ UNCHANGED << pageCount, max_workers, image_paths, files, submitted, st,
                  response, ret, fut, ocr_calls, submit_calls, all_pages_data,
                  completion_order, json_out, txt_out, artifacts, file_ops,
                  aux >>

\* fitz.open, load_page, get_pixmap or save raises: the except branch
\* returns [] and main returns at "No images were generated"
ConvertRaise ==
  /\ pc = "convert"
  /\ Len(image_paths) < pageCount
  /\ image_files' = <<>>
  /\ pc' = "no_images"
  /\ UNCHANGED << pageCount, max_workers, image_paths, files, submitted, st,
                  response, ret, fut, ocr_calls, submit_calls, all_pages_data,
                  completion_order, json_out, txt_out, artifacts, file_ops, aux >>

\* the loop is over: image_paths is returned to main
ConvertReturn ==
  /\ pc = "convert"
  /\ Len(image_paths) = pageCount
  /\ image_files' = image_paths
  /\ pc' = IF image_paths = <<>> THEN "no_images" ELSE "submit"
  /\ UNCHANGED << pageCount, max_workers, image_paths, files, submitted, st,
                  response, ret, fut, ocr_calls, submit_calls, all_pages_data,
                  completion_order, json_out, txt_out, artifacts, file_ops, aux >>

\* ------------------------------------------------------ main: submission
\* executor.submit(process_single_page, image_path, i + 1) for the next i
Submit ==
  /\ pc = "submit"
  /\ submitted < Len(image_files)
  /\ submitted' = submitted + 1
  /\ st' = [st EXCEPT ![submitted + 1] = "queued"]
  /\ submit_calls' = [submit_calls EXCEPT ![submitted + 1] = @ + 1]
  /\ pc' = IF submitted + 1 = Len(image_files) THEN "collect" ELSE "submit"
  /\ UNCHANGED << pageCount, max_workers, image_paths, image_files, files,
                  response, ret, fut, ocr_calls, all_pages_data,
                  completion_order, json_out, txt_out, artifacts, file_ops, aux >>

\* executor.submit raises (no thread can be started): the exception leaves
\* the dict comprehension and the with block, whose exit waits for the
\* tasks already submitted
SubmitRaise ==
  /\ pc = "submit"
  /\ submitted < Len(image_files)
  /\ pc' = "unwinding"
  /\ UNCHANGED << pageCount, max_workers, image_paths, image_files, files,
                  submitted, st, response, ret, fut, ocr_calls, submit_calls,
                  all_pages_data, completion_order, json_out, txt_out,
                  artifacts, file_ops, aux >>

\* executor.shutdown(wait=True) returns, the exception leaves main
Unwound ==
  /\ pc = "unwinding"
  /\ \A k \in 1..submitted : st[k] = "done"
  /\ pc' = "aborted"
  /\ UNCHANGED << pageCount, max_workers, image_paths, image_files, files,
                  submitted, st, response, ret, fut, ocr_calls, submit_calls,
                  all_pages_data, completion_order, json_out, txt_out,
                  artifacts, file_ops, aux >>

\* ------------------------------------------------------- the worker pool
Queued == { k \in Pages : st[k] = "queued" }
\* tasks a worker thread is executing
Busy == { k \in Pages : st[k] \in {"ocr", "computed"} }
\* perform_ocr_on_image calls that have started and not yet returned
InFlight == { k \in Pages : st[k] = "ocr" }

\* admission without regard to the pool size
SlotFree_unbounded == TRUE

SlotFree == Cardinality(Busy) < max_workers

\* as StartTask, but no task is started once a page has failed
StartTask_stop_on_failure ==
  /\ Queued # {}
  /\ SlotFree
  /\ \A j \in Pages : ret[j] = NoResult \/ ~HasError(ret[j])
  /\ file_ops' = [file_ops EXCEPT ![image_files[SetMin(Queued)]].readers =
                                     @ \cup {SetMin(Queued)}]
  /\ LET k == SetMin(Queued) IN
       \/ /\ st' = [st EXCEPT ![k] = "ocr"]
          /\ ocr_calls' = [ocr_calls EXCEPT ![k] = @ + 1]
          /\ UNCHANGED << response, ret >>
       \/ \E r \in { o \in OCROutcomes : o.kind = "open_raise" } :
            /\ st' = [st EXCEPT ![k] = "computed"]
            /\ response' = [response EXCEPT ![k] = r]
            /\ ret' = [ret EXCEPT ![k] = PageResult(k, r)]
            /\ UNCHANGED ocr_calls
  /\ UNCHANGED << pageCount, max_workers, pc, image_paths, image_files,
                  files, submitted, fut, all_pages_data, completion_order,
                  json_out, txt_out, artifacts, submit_calls, aux >>

\* a free worker takes the head of the work queue and runs
\* process_single_page up to the call of document_text_detection; when
\* io.open raises the except branch computes the error entry at once
StartTask ==
  /\ Queued # {}
  /\ SlotFree
  /\ file_ops' = [file_ops EXCEPT ![image_files[SetMin(Queued)]].readers =
                                     @ \cup {SetMin(Queued)}]
  /\ LET k == SetMin(Queued) IN
       \/ /\ st' = [st EXCEPT ![k] = "ocr"]
          /\ ocr_calls' = [ocr_calls EXCEPT ![k] = @ + 1]
          /\ UNCHANGED << response, ret >>
       \/ \E r \in { o \in OCROutcomes : o.kind = "open_raise" } :
            /\ st' = [st EXCEPT ![k] = "computed"]
            /\ response' = [response EXCEPT ![k] = r]
            /\ ret' = [ret EXCEPT ![k] = PageResult(k, r)]
            /\ UNCHANGED ocr_calls
  /\ UNCHANGED << pageCount, max_workers, pc, image_paths, image_files,
                  files, submitted, fut, all_pages_data, completion_order,
                  json_out, txt_out, artifacts, submit_calls, aux >>

\* as OcrReturn, but a raising call is issued once more before the error
\* entry is built
OcrReturn_retry(k) ==
  /\ st[k] = "ocr"
  /\ \E r \in { o \in OCROutcomes : o.kind # "open_raise" } :
       IF r.kind = "raise" /\ ocr_calls[k] < 2
       THEN /\ ocr_calls' = [ocr_calls EXCEPT ![k] = @ + 1]
            /\ UNCHANGED << response, ret, st >>
       ELSE /\ response' = [response EXCEPT ![k] = r]
            /\ ret' = [ret EXCEPT ![k] = PageResult(k, r)]
            /\ st' = [st EXCEPT ![k] = "computed"]
            /\ UNCHANGED ocr_calls
  /\ UNCHANGED << pageCount, max_workers, pc, image_paths, image_files,
                  files, submitted, fut, submit_calls, all_pages_data,
                  completion_order, json_out, txt_out, artifacts, file_ops, aux >>

\* document_text_detection returns or raises; the try block builds
\* page_data, or the except branch builds the error entry
OcrReturn(k) ==
  /\ st[k] = "ocr"
  /\ \E r \in { o \in OCROutcomes : o.kind # "open_raise" } :
       /\ response' = [response EXCEPT ![k] = r]
       /\ ret' = [ret EXCEPT ![k] = PageResult(k, r)]
  /\ st' = [st EXCEPT ![k] = "computed"]
  /\ UNCHANGED << pageCount, max_workers, pc, image_paths, image_files,
                  files, submitted, fut, ocr_calls, submit_calls, all_pages_data,
                  completion_order, json_out, txt_out, artifacts, file_ops, aux >>

\* as Cleanup, but the removal sits at the end of the try block, so that
\* it is skipped when the except branch built the entry
Cleanup_success_only(k) ==
  /\ st[k] = "computed"
  /\ st' = [st EXCEPT ![k] = "done"]
  /\ IF CLEAN_IMAGES /\ image_files[k] \in files /\ ~HasError(ret[k])
     THEN \/ /\ files' = files \ {image_files[k]}
             /\ fut' = [fut EXCEPT ![k] = "result"]
             /\ file_ops' = [file_ops EXCEPT
                               ![image_files[k]].removers = @ \cup {k},
                               ![image_files[k]].removed = @ + 1]
          \/ /\ files' = files
             /\ fut' = [fut EXCEPT ![k] = "exception"]
             /\ file_ops' = [file_ops EXCEPT
                               ![image_files[k]].removers = @ \cup {k}]
     ELSE /\ files' = files
          /\ fut' = [fut EXCEPT ![k] = "result"]
          /\ file_ops' = IF CLEAN_IMAGES
                         THEN [file_ops EXCEPT
                                 ![image_files[k]].removers = @ \cup {k}]
                         ELSE file_ops
  /\ UNCHANGED << pageCount, max_workers, pc, image_paths, image_files,
                  submitted, response, ret, ocr_calls, submit_calls,
                  all_pages_data, completion_order, json_out, txt_out,
                  artifacts, aux >>

\* the finally clause: os.remove(image_path) when the file exists.  When
\* os.remove raises, that exception replaces the pending return value and
\* becomes the outcome of the future.
Cleanup(k) ==
  /\ st[k] = "computed"
  /\ st' = [st EXCEPT ![k] = "done"]
  /\ IF CLEAN_IMAGES /\ image_files[k] \in files
     THEN \/ /\ files' = files \ {image_files[k]}
             /\ fut' = [fut EXCEPT ![k] = "result"]
             /\ file_ops' = [file_ops EXCEPT
                               ![image_files[k]].removers = @ \cup {k},
                               ![image_files[k]].removed = @ + 1]
          \/ /\ files' = files
             /\ fut' = [fut EXCEPT ![k] = "exception"]
             /\ file_ops' = [file_ops EXCEPT
                               ![image_files[k]].removers = @ \cup {k}]
     ELSE /\ files' = files
          /\ fut' = [fut EXCEPT ![k] = "result"]
          /\ file_ops' = IF CLEAN_IMAGES
                         THEN [file_ops EXCEPT
                                 ![image_files[k]].removers = @ \cup {k}]
                         ELSE file_ops
  /\ UNCHANGED << pageCount, max_workers, pc, image_paths, image_files,
                  submitted, response, ret, ocr_calls, submit_calls, all_pages_data,
                  completion_order, json_out, txt_out, artifacts, aux >>

\* ------------------------------------------------------ main: collection
Uncollected == { k \in 1..submitted : k \notin
                   { completion_order[i] : i \in 1..Len(completion_order) } }

\* as Collect, but a future counts as completed once the return value is
\* computed, before the finally clause has run
Collect_early(k) ==
  /\ pc = "collect"
  /\ k \in Uncollected
  /\ st[k] \in {"computed", "done"}
  /\ completion_order' = Append(completion_order, k)
  /\ all_pages_data' = IF fut[k] # "exception"
                       THEN Append(all_pages_data, ret[k])
                       ELSE all_pages_data
  /\ UNCHANGED << pageCount, max_workers, pc, image_paths, image_files,
                  files, submitted, st, response, ret, fut, ocr_calls, submit_calls,
                  json_out, txt_out, artifacts, file_ops, aux >>

\* one iteration of the as_completed loop: future.result() returns the
\* entry, which is appended, or raises, which is logged
Collect(k) ==
  /\ pc = "collect"
  /\ k \in Uncollected
  /\ st[k] = "done"
  /\ completion_order' = Append(completion_order, k)
  /\ all_pages_data' = IF fut[k] = "result"
                       THEN Append(all_pages_data, ret[k])
                       ELSE all_pages_data
  /\ UNCHANGED << pageCount, max_workers, pc, image_paths, image_files,
                  files, submitted, st, response, ret, fut, ocr_calls, submit_calls,
                  json_out, txt_out, artifacts, file_ops, aux >>

\* the loop is left at the first completed future
JoinReady_first == completion_order # <<>>

\* as_completed is exhausted
JoinReady == Uncollected = {}

\* the loop and the with block are left
JoinExit ==
  /\ pc = "collect"
  /\ JoinReady
  /\ pc' = "sort"
  /\ UNCHANGED << pageCount, max_workers, image_paths, image_files, files,
                  submitted, st, response, ret, fut, ocr_calls, submit_calls,
                  all_pages_data, completion_order, json_out, txt_out,
                  artifacts, file_ops, aux >>

\* the list is left in completion order
SortStep_unsorted ==
  /\ pc = "sort"
  /\ pc' = "save"
  /\ UNCHANGED << pageCount, max_workers, image_paths, image_files, files,
                  submitted, st, response, ret, fut, ocr_calls, submit_calls,
                  all_pages_data, completion_order, json_out, txt_out,
                  artifacts, file_ops, aux >>

\* all_pages_data.sort(key=lambda p: p['page_number'])
SortStep ==
  /\ pc = "sort"
  /\ all_pages_data' = SortByPage(all_pages_data)
  /\ pc' = "save"
  /\ UNCHANGED << pageCount, max_workers, image_paths, image_files, files,
                  submitted, st, response, ret, fut, ocr_calls, submit_calls,
                  completion_order, json_out, txt_out, artifacts, file_ops, aux >>

\* ---------------------------------------------------------- save_results
\* p.get('error') is falsy: no error key, or the empty message
ErrorFalsy(p) == ~HasError(p) \/ p.error = ""

\* the entries the list comprehension formats
TextPages(data) == SelectSeq(data, ErrorFalsy)

\* p['full_text'] raises KeyError on an entry without that key
TextRaises(data) ==
  \E i \in 1..Len(data) : ErrorFalsy(data[i]) /\ "full_text" \notin DOMAIN data[i]

TextBlocks(data) ==
  LET ps == TextPages(data)
  IN  [i \in 1..Len(ps) |->
         [header |-> ps[i].page_number, body |-> ps[i].full_text]]

\* as save_results, with the two files opened for appending
save_results_append ==
  /\ pc = "save"
  /\ json_out' = json_out \o all_pages_data
  /\ IF TextRaises(all_pages_data)
     THEN /\ artifacts' = artifacts \cup {"json"}
          /\ txt_out' = txt_out
          /\ pc' = "failed"
     ELSE /\ artifacts' = artifacts \cup {"json", "txt"}
          /\ txt_out' = txt_out \o TextBlocks(all_pages_data)
          /\ pc' = "returned"
  /\ UNCHANGED << pageCount, max_workers, image_paths, image_files, files,
                  submitted, st, response, ret, fut, ocr_calls, submit_calls,
                  all_pages_data, completion_order, file_ops, aux >>

save_results ==
  /\ pc = "save"
  /\ json_out' = all_pages_data
  /\ IF TextRaises(all_pages_data)
     THEN /\ artifacts' = artifacts \cup {"json"}
          /\ txt_out' = txt_out
          /\ pc' = "failed"
     ELSE /\ artifacts' = artifacts \cup {"json", "txt"}
          /\ txt_out' = TextBlocks(all_pages_data)
          /\ pc' = "returned"
  /\ UNCHANGED << pageCount, max_workers, image_paths, image_files, files,
                  submitted, st, response, ret, fut, ocr_calls, submit_calls,
                  all_pages_data, completion_order, file_ops, aux >>

\* ------------------------------------------------------ text functions
\* the post-processing of process_single_page applied to one text

\* the state of a pipeline that is not running
Idle ==
  /\ pageCount = 1
  /\ max_workers = 1
  /\ image_paths = <<>>
  /\ image_files = <<>>
  /\ files = {}
  /\ submitted = 0
  /\ st = [k \in Pages |-> "unsubmitted"]
  /\ response = [k \in Pages |-> NoResponse]
  /\ ret = [k \in Pages |-> NoResult]
  /\ fut = [k \in Pages |-> "pending"]
  /\ ocr_calls = [k \in Pages |-> 0]
  /\ submit_calls = [k \in Pages |-> 0]
  /\ completion_order = <<>>
  /\ file_ops = [f \in Pages |-> [readers |-> {}, removers |-> {}, removed |-> 0]]
  /\ http_response = NoHttpResponse
  /\ RestIdle

\* sample code points: tab, line feed, space, '1', 'H', e-acute, Cyrillic,
\* Arabic, Devanagari, the last of Gujarati, the first and the last of
\* Odia, the first of Tamil, ideographic space, Hiragana, CJK, Hangul
Chars == {9, NL, SP, 49, 72, 233, 1078, 1600, 2325, 2815, 2816, 2943, 2944,
          12288, 12354, 20013, 44032}

\* "  Hello \n\n World  \n"
ExampleText ==
  <<SP, SP, 72, 101, 108, 108, 111, SP, NL, NL, SP, 87, 111, 114, 108, 100,
    SP, SP, NL>>

Texts ==
  UNION { [1..n -> Chars] : n \in 0..MaxTextLen } \cup {ExampleText}

TextInit ==
  /\ Idle
  /\ pc = "text"
  /\ text \in Texts
  /\ out = NoResult
  /\ all_pages_data = <<>>
  /\ json_out = <<>>
  /\ txt_out = <<>>
  /\ artifacts = {}
  /\ saves = 0
  /\ prev_out = NoResult

\* lines 79-90 of process_single_page on a response carrying `text`
ProcessText ==
  /\ pc = "text"
  /\ out = NoResult
  /\ out' = [page |-> PageData(1, text)]
  /\ UNCHANGED << pageCount, max_workers, pc, image_paths, image_files,
                  files, submitted, st, response, ret, fut, ocr_calls,
                  submit_calls, all_pages_data, completion_order, json_out,
                  txt_out, artifacts, file_ops, text, saves, prev_out,
                  http_response, rest >>

\* the same lines on a response carrying the full_text just produced
ProcessAgain ==
  /\ pc = "text"
  /\ DOMAIN out = {"page"}
  /\ out' = [page |-> out.page, again |-> PageData(1, out.page.full_text)]
  /\ UNCHANGED << pageCount, max_workers, pc, image_paths, image_files,
                  files, submitted, st, response, ret, fut, ocr_calls,
                  submit_calls, all_pages_data, completion_order, json_out,
                  txt_out, artifacts, file_ops, text, saves, prev_out,
                  http_response, rest >>

NextText ==
  \/ ProcessText
  \/ ProcessAgain

SpecText == TextInit /\ [][NextText]_vars

\* ------------------------------------------- save_results on a batch
\* save_results called, and called again, on one ordered batch

\* the entries of the pages in S, in page order, page k with outcome c[k]
RECURSIVE BatchOf(_, _)
BatchOf(S, c) ==
  IF S = {} THEN <<>>
  ELSE <<PageResult(SetMin(S), c[SetMin(S)])>>
         \o BatchOf(S \ {SetMin(S)}, c)

\* the batches main can hand to save_results: pages in ascending order,
\* each with the entry of one outcome, pages whose future raised left out
Batches ==
  UNION { { BatchOf(S, c) : c \in [S -> OCROutcomes] } : S \in SUBSET Pages }

SaveInit ==
  /\ Idle
  /\ pc = "save"
  /\ all_pages_data \in Batches
  /\ json_out = <<>>
  /\ txt_out = <<>>
  /\ artifacts = {}
  /\ text = <<>>
  /\ out = NoResult
  /\ saves = 0
  /\ prev_out = NoResult

OutputFiles == [json |-> json_out, txt |-> txt_out, written |-> artifacts]

\* the caller calls save_results once more with the same batch and name
SaveAgain ==
  /\ pc \in {"returned", "failed"}
  /\ saves < MaxReruns
  /\ saves' = saves + 1
  /\ prev_out' = OutputFiles
  /\ pc' = "save"
  /\ UNCHANGED << pageCount, max_workers, image_paths, image_files, files,
                  submitted, st, response, ret, fut, ocr_calls, submit_calls,
                  all_pages_data, completion_order, json_out, txt_out,
                  artifacts, file_ops, text, out, http_response, rest >>

NextSave ==
  \/ save_results
  \/ SaveAgain

SpecSave == SaveInit /\ [][NextSave]_vars

\* ------------------------------------------------------- process_pdf_api
\* the 'pdf' branch of the route, from convert_pdf_to_images on.  It runs
\* the same pool and collection loop as main, without the check of
\* image_files and without save_results.

\* convert_pdf_to_images returns [] from its except branch; the route goes
\* on into the with block, where nothing is submitted
ApiConvertRaise ==
  /\ pc = "convert"
  /\ Len(image_paths) < pageCount
  /\ image_files' = <<>>
  /\ pc' = "collect"
  /\ UNCHANGED << pageCount, max_workers, image_paths, files, submitted, st,
                  response, ret, fut, ocr_calls, submit_calls, all_pages_data,
                  completion_order, json_out, txt_out, artifacts, file_ops,
                  aux >>

ApiConvertReturn ==
  /\ pc = "convert"
  /\ Len(image_paths) = pageCount
  /\ image_files' = image_paths
  /\ pc' = IF image_paths = <<>> THEN "collect" ELSE "submit"
  /\ UNCHANGED << pageCount, max_workers, image_paths, files, submitted, st,
                  response, ret, fut, ocr_calls, submit_calls, all_pages_data,
                  completion_order, json_out, txt_out, artifacts, file_ops,
                  aux >>

\* an exception of executor.submit has left the with block: the route's
\* except branch raises HTTPException(500)
ApiUnwound ==
  /\ pc = "unwinding"
  /\ \A k \in 1..submitted : st[k] = "done"
  /\ pc' = "responded"
  /\ http_response' = [status |-> "500"]
  /\ UNCHANGED << pageCount, max_workers, image_paths, image_files, files,
                  submitted, st, response, ret, fut, ocr_calls, submit_calls,
                  all_pages_data, completion_order, json_out, txt_out,
                  artifacts, file_ops, text, out, saves, prev_out,
                  rest >>

\* all_pages_data.sort(key=lambda p: p.get('page_number', 0)); every entry
\* has a page_number
ApiSortStep ==
  /\ pc = "sort"
  /\ all_pages_data' = SortByPage(all_pages_data)
  /\ pc' = "structure"
  /\ UNCHANGED << pageCount, max_workers, image_paths, image_files, files,
                  submitted, st, response, ret, fut, ocr_calls, submit_calls,
                  completion_order, json_out, txt_out, artifacts, file_ops,
                  aux >>

\* get_structured_business_plan_student / _mentor return and the route
\* returns the dict with "transcribe": json.dumps(all_pages_data), or one
\* of them raises and the except branch raises HTTPException(500)
ApiRespond ==
  /\ pc = "structure"
  /\ pc' = "responded"
  /\ \/ http_response' = [status |-> "200", transcribe |-> all_pages_data]
     \/ http_response' = [status |-> "500"]
  /\ UNCHANGED << pageCount, max_workers, image_paths, image_files, files,
                  submitted, st, response, ret, fut, ocr_calls, submit_calls,
                  all_pages_data, completion_order, json_out, txt_out,
                  artifacts, file_ops, text, out, saves, prev_out,
                  rest >>

NextApi ==
  \/ ConvertPage
  \/ ApiConvertRaise
  \/ ApiConvertReturn
  \/ Submit
  \/ SubmitRaise
  \/ ApiUnwound
  \/ StartTask
  \/ \E k \in Pages : OcrReturn(k)
  \/ \E k \in Pages : Cleanup(k)
  \/ \E k \in Pages : Collect(k)
  \/ JoinExit
  \/ ApiSortStep
  \/ ApiRespond

SpecApi == Init /\ [][NextApi]_vars

\* ------------------------------------------- the sequential variant
\* main of full_multi_updated2.py (top level), run on the PDF the threaded
\* pipeline has processed, every page with the outcome of
\* perform_ocr_on_image that the threaded run got for it.

\* str(e) of the exception os.remove raises
RemoveErrMsg == "cannot remove image"
COLON == 58

\* the lines with ':' in line and len(line.split(':')) == 2
KvLines(lines) ==
  SelectSeq(lines, LAMBDA l :
    Cardinality({ i \in 1..Len(l) : l[i] = COLON }) = 1)

\* kv_pairs[key.strip()] = value.strip() line after line: a later line
\* replaces the value of a key it repeats
KvPairs(lines) ==
  LET kv == KvLines(lines)
      at(l) == CHOOSE i \in 1..Len(l) : l[i] = COLON
      key(l) == Strip(SubSeq(l, 1, at(l) - 1))
      value(l) == Strip(SubSeq(l, at(l) + 1, Len(l)))
  IN  { <<key(kv[i]), value(kv[i])>> : i \in
          { i \in 1..Len(kv) :
              \A j \in (i + 1)..Len(kv) : key(kv[j]) # key(kv[i]) } }

\* process_ocr_response_to_structured_json
SeqPageData(page_num, full_text) ==
  LET lines == IF full_text # <<>> THEN Lines(full_text) ELSE <<>>
      page_data ==
        [ page_number |-> page_num,
          text_content |-> lines,
          full_text |-> Join(lines, NL),
          has_content |-> lines # <<>>,
          detected_languages |-> detect_languages_in_text_all(full_text) ]
  IN  IF KvPairs(lines) # {}
      THEN [ page_number |-> page_data.page_number,
             text_content |-> page_data.text_content,
             full_text |-> page_data.full_text,
             has_content |-> page_data.has_content,
             detected_languages |-> page_data.detected_languages,
             key_value_pairs |-> KvPairs(lines) ]
      ELSE page_data

\* as SeqErrorEntry, with a fixed message in place of str(e)
SeqErrorEntry_fixed(page_num, msg) ==
  [ page_number |-> page_num, error |-> "OCR failed", has_content |-> FALSE,
    processing_timestamp |-> "now" ]

\* the dict appended by the except branch of the loop; the timestamp is
\* the time of the call
SeqErrorEntry(page_num, msg) ==
  [ page_number |-> page_num, error |-> msg, has_content |-> FALSE,
    processing_timestamp |-> "now" ]

\* convert_pdf_to_images returns the paths of page_1.png .. page_N.png
SeqConvert ==
  /\ pc \in {"returned", "failed"}
  /\ seq_pc = "idle"
  /\ seq_files' = 1..pageCount
  /\ seq_i' = 0
  /\ seq_pc' = "loop"
  /\ UNCHANGED << pageCount, max_workers, pc, image_paths, image_files,
                  files, submitted, st, response, ret, fut, ocr_calls,
                  submit_calls, all_pages_data, completion_order, json_out,
                  txt_out, artifacts, file_ops, text, out, saves, prev_out,
                  http_response, hung, seq_all_pages_data, shared_dir, runs >>

\* convert_pdf_to_images raises after some pages: [] is returned and main
\* returns at "No images were generated"
SeqConvertRaise ==
  /\ pc \in {"returned", "failed"}
  /\ seq_pc = "idle"
  /\ \E n \in 0..(pageCount - 1) : seq_files' = 1..n
  /\ seq_pc' = "no_images"
  /\ UNCHANGED << pageCount, max_workers, pc, image_paths, image_files,
                  files, submitted, st, response, ret, fut, ocr_calls,
                  submit_calls, all_pages_data, completion_order, json_out,
                  txt_out, artifacts, file_ops, text, out, saves, prev_out,
                  http_response, hung, seq_i, seq_all_pages_data, shared_dir,
                  runs >>

\* as SeqStep, with the removal in a finally clause
SeqStep_finally ==
  /\ seq_pc = "loop"
  /\ seq_i < pageCount
  /\ seq_i' = seq_i + 1
  /\ LET k == seq_i + 1
         r == response[seq_i + 1]
         e == IF r.kind = "text" THEN SeqPageData(k, r.text)
              ELSE SeqErrorEntry(k, r.msg)
     IN  /\ seq_all_pages_data' = Append(seq_all_pages_data, e)
         /\ seq_files' = IF CLEAN_IMAGES THEN seq_files \ {k} ELSE seq_files
  /\ UNCHANGED << pageCount, max_workers, pc, image_paths, image_files,
                  files, submitted, st, response, ret, fut, ocr_calls,
                  submit_calls, all_pages_data, completion_order, json_out,
                  txt_out, artifacts, file_ops, text, out, saves, prev_out,
                  http_response, hung, seq_pc, shared_dir, runs >>

\* one iteration of the loop, for page seq_i + 1.  The try block appends
\* page_data and then removes the image; an exception of any statement of
\* the try block, os.remove included, makes the except branch append an
\* error entry.
SeqStep ==
  /\ seq_pc = "loop"
  /\ seq_i < pageCount
  /\ seq_i' = seq_i + 1
  /\ LET k == seq_i + 1
         r == response[seq_i + 1]
     IN  IF r.kind = "text"
         THEN IF CLEAN_IMAGES
              THEN \/ /\ seq_all_pages_data' =
                           Append(seq_all_pages_data, SeqPageData(k, r.text))
                      /\ seq_files' = seq_files \ {k}
                   \/ /\ seq_all_pages_data' =
                           seq_all_pages_data
                             \o << SeqPageData(k, r.text),
                                   SeqErrorEntry(k, RemoveErrMsg) >>
                      /\ seq_files' = seq_files
              ELSE /\ seq_all_pages_data' =
                        Append(seq_all_pages_data, SeqPageData(k, r.text))
                   /\ seq_files' = seq_files
         ELSE /\ seq_all_pages_data' =
                   Append(seq_all_pages_data, SeqErrorEntry(k, r.msg))
              /\ seq_files' = seq_files
  /\ UNCHANGED << pageCount, max_workers, pc, image_paths, image_files,
                  files, submitted, st, response, ret, fut, ocr_calls,
                  submit_calls, all_pages_data, completion_order, json_out,
                  txt_out, artifacts, file_ops, text, out, saves, prev_out,
                  http_response, hung, seq_pc, shared_dir, runs >>

\* the loop is over: main goes on to save_results and returns
SeqLoopExit ==
  /\ seq_pc = "loop"
  /\ seq_i = pageCount
  /\ seq_pc' = "done"
  /\ UNCHANGED << pageCount, max_workers, pc, image_paths, image_files,
                  files, submitted, st, response, ret, fut, ocr_calls,
                  submit_calls, all_pages_data, completion_order, json_out,
                  txt_out, artifacts, file_ops, text, out, saves, prev_out,
                  http_response, hung, seq_i, seq_files, seq_all_pages_data,
                  shared_dir, runs >>

NextSeq ==
  \/ ConvertPage
  \/ ConvertRaise
  \/ ConvertReturn
  \/ Submit
  \/ SubmitRaise
  \/ Unwound
  \/ StartTask
  \/ \E k \in Pages : OcrReturn(k)
  \/ \E k \in Pages : Cleanup(k)
  \/ \E k \in Pages : Collect(k)
  \/ JoinExit
  \/ SortStep
  \/ save_results
  \/ SeqConvert
  \/ SeqConvertRaise
  \/ SeqStep
  \/ SeqLoopExit

SpecSeq == Init /\ [][NextSeq]_vars

\* ------------------------------------- two runs over one OUTPUT_DIR
\* Two runs of main (or two requests of process_pdf_api), each on its own
\* PDF, with the same OUTPUT_DIR.  Both name their images page_k.png.

\* the text on page k of the PDF of run d: the letter of the run and the
\* digit of the page
TextOf(d, k) == <<64 + d, 48 + k>>

TwoInit ==
  /\ pageCount = 1
  /\ max_workers \in 1..MaxW
  /\ pc = "two"
  /\ image_paths = <<>>
  /\ image_files = <<>>
  /\ files = {}
  /\ submitted = 0
  /\ st = [k \in Pages |-> "unsubmitted"]
  /\ response = [k \in Pages |-> NoResponse]
  /\ ret = [k \in Pages |-> NoResult]
  /\ fut = [k \in Pages |-> "pending"]
  /\ ocr_calls = [k \in Pages |-> 0]
  /\ submit_calls = [k \in Pages |-> 0]
  /\ all_pages_data = <<>>
  /\ completion_order = <<>>
  /\ json_out = <<>>
  /\ txt_out = <<>>
  /\ artifacts = {}
  /\ file_ops = [f \in Pages |-> [readers |-> {}, removers |-> {}, removed |-> 0]]
  /\ text = <<>>
  /\ out = NoResult
  /\ saves = 0
  /\ prev_out = NoResult
  /\ http_response = NoHttpResponse
  /\ hung = {}
  /\ seq_pc = "idle"
  /\ seq_i = 0
  /\ seq_files = {}
  /\ seq_all_pages_data = <<>>
  /\ shared_dir = [f \in Names |-> 0]
  /\ runs \in [Runs -> { [NoRun EXCEPT !.pc = "convert", !.pageCount = n] :
                           n \in SharedPages }]

\* the variables the two runs do not touch
TwoFrame ==
  UNCHANGED << pageCount, max_workers, pc, image_paths, image_files, files,
               submitted, st, response, ret, fut, ocr_calls, submit_calls,
               all_pages_data, completion_order, json_out, txt_out, artifacts,
               file_ops, text, out, saves, prev_out, http_response, hung,
               seq_pc, seq_i, seq_files, seq_all_pages_data >>


\* one iteration of the rendering loop of run r: pix.save writes its page
\* to page_{n+1}.png, over whatever file has that name
TwoConvertPage(r) ==
  /\ runs[r].pc = "convert"
  /\ Len(runs[r].image_paths) < runs[r].pageCount
  /\ LET k == Len(runs[r].image_paths) + 1 IN
       /\ shared_dir' = [shared_dir EXCEPT ![ImageName(r, k)] = r]
       /\ runs' = [runs EXCEPT ![r].image_paths = Append(@, ImageName(r, k))]
  /\ TwoFrame

\* rendering raises: [] is returned and the run ends at "No images"
TwoConvertRaise(r) ==
  /\ runs[r].pc = "convert"
  /\ Len(runs[r].image_paths) < runs[r].pageCount
  /\ runs' = [runs EXCEPT ![r].pc = "no_images"]
  /\ UNCHANGED shared_dir
  /\ TwoFrame

\* the paths are returned and one task per path is submitted
TwoSubmit(r) ==
  /\ runs[r].pc = "convert"
  /\ Len(runs[r].image_paths) = runs[r].pageCount
  /\ runs' = [runs EXCEPT ![r].pc = "collect",
                          ![r].st = [k \in SharedPages |->
                                      IF k <= runs[r].pageCount
                                      THEN "queued" ELSE "unsubmitted"]]
  /\ UNCHANGED shared_dir
  /\ TwoFrame

TwoQueued(r) == { k \in SharedPages : runs[r].st[k] = "queued" }
TwoBusy(r) == { k \in SharedPages : runs[r].st[k] = "computed" }

\* a free worker of run r takes the head of its queue and runs the try
\* block: io.open raises when the file is gone, else the OCR call returns
\* the text of the page the file holds, or raises
TwoStartTask(r) ==
  /\ TwoQueued(r) # {}
  /\ Cardinality(TwoBusy(r)) < max_workers
  /\ LET k == SetMin(TwoQueued(r)) IN
       \E e \in IF shared_dir[runs[r].image_paths[k]] = 0
                THEN { ErrorEntry(k, OpenErrMsg) }
                ELSE { PageData(k, TextOf(shared_dir[runs[r].image_paths[k]],
                                          runs[r].image_paths[k][2])) }
                       \cup { ErrorEntry(k, m) : m \in ErrMsgs } :
         runs' = [runs EXCEPT ![r].st[k] = "computed", ![r].ret[k] = e]
  /\ UNCHANGED shared_dir
  /\ TwoFrame

\* the finally clause of task k of run r
TwoCleanup(r, k) ==
  /\ runs[r].st[k] = "computed"
  /\ IF CLEAN_IMAGES /\ shared_dir[runs[r].image_paths[k]] # 0
     THEN \/ /\ shared_dir' = [shared_dir EXCEPT ![runs[r].image_paths[k]] = 0]
             /\ runs' = [runs EXCEPT ![r].st[k] = "done",
                                     ![r].fut[k] = "result"]
          \/ /\ shared_dir' = shared_dir
             /\ runs' = [runs EXCEPT ![r].st[k] = "done",
                                     ![r].fut[k] = "exception"]
     ELSE /\ shared_dir' = shared_dir
          /\ runs' = [runs EXCEPT ![r].st[k] = "done",
                                  ![r].fut[k] = "result"]
  /\ TwoFrame

\* the results of the pages in S, in page order
RECURSIVE ResultsOf(_, _)
ResultsOf(S, rets) ==
  IF S = {} THEN <<>>
  ELSE <<rets[SetMin(S)]>> \o ResultsOf(S \ {SetMin(S)}, rets)

\* the as_completed loop of run r has collected every future and the list
\* is sorted
TwoCollect(r) ==
  /\ runs[r].pc = "collect"
  /\ \A k \in 1..runs[r].pageCount : runs[r].st[k] = "done"
  /\ runs' = [runs EXCEPT
               ![r].pc = "sorted",
               ![r].all_pages_data =
                  ResultsOf({ k \in 1..runs[r].pageCount :
                                runs[r].fut[k] = "result" }, runs[r].ret)]
  /\ UNCHANGED shared_dir
  /\ TwoFrame

NextTwo ==
  \/ \E r \in Runs : TwoConvertPage(r)
  \/ \E r \in Runs : TwoConvertRaise(r)
  \/ \E r \in Runs : TwoSubmit(r)
  \/ \E r \in Runs : TwoStartTask(r)
  \/ \E r \in Runs : \E k \in SharedPages : TwoCleanup(r, k)
  \/ \E r \in Runs : TwoCollect(r)

SpecTwo == TwoInit /\ [][NextTwo]_vars

Next ==
  \/ ConvertPage
  \/ ConvertRaise
  \/ ConvertReturn
  \/ Submit
  \/ SubmitRaise
  \/ Unwound
  \/ StartTask
  \/ \E k \in Pages : OcrReturn(k)
  \/ \E k \in Pages : Cleanup(k)
  \/ \E k \in Pages : Collect(k)
  \/ JoinExit
  \/ SortStep
  \/ save_results

Spec == Init /\ [][Next]_vars


\* ----------------------------------------------------- scheduling
\* The worker threads and the main thread are scheduled by the operating
\* system: a step that stays possible is eventually taken.
\* the step of OcrReturn(k) as it shows on st: the call of page k ends
OcrEnds(k) ==
  /\ st[k] = "ocr"
  /\ st' = [st EXCEPT ![k] = "computed"]

LiveFairness ==
  /\ WF_vars(StartTask)
  /\ \A k \in Pages : WF_st(OcrEnds(k))
  /\ \A k \in Pages : WF_vars(Cleanup(k))
  /\ \A k \in Pages : WF_vars(Collect(k))
  /\ WF_vars(JoinExit)
  /\ WF_vars(SortStep)
  /\ WF_vars(save_results)

\* the run of main in which every OCR call returns or raises
SpecLive == Init /\ [][Next]_vars /\ LiveFairness

\* ------------------------------------------------- OCR calls that hang
\* document_text_detection is called without a timeout: a call may never
\* return.  hung holds the pages whose call is such a call.

\* the call of page k is one that never returns
Hang(k) ==
  /\ st[k] = "ocr"
  /\ k \notin hung
  /\ hung' = hung \cup {k}
  /\ UNCHANGED << pageCount, max_workers, pc, image_paths, image_files,
                  files, submitted, st, response, ret, fut, ocr_calls,
                  submit_calls, all_pages_data, completion_order, json_out,
                  txt_out, artifacts, file_ops, text, out, saves, prev_out,
                  http_response, seq_pc, seq_i, seq_files,
                  seq_all_pages_data, shared_dir, runs >>

\* as OcrReturnLive, with a deadline after which a hung call raises
OcrReturnLive_deadline(k) == OcrReturn(k)

\* the call of page k returns or raises, unless it is one that hangs
OcrReturnLive(k) ==
  /\ k \notin hung
  /\ OcrReturn(k)

NextHang ==
  \/ ConvertPage
  \/ ConvertRaise
  \/ ConvertReturn
  \/ Submit
  \/ SubmitRaise
  \/ Unwound
  \/ StartTask
  \/ \E k \in Pages : Hang(k)
  \/ \E k \in Pages : OcrReturnLive(k)
  \/ \E k \in Pages : Cleanup(k)
  \/ \E k \in Pages : Collect(k)
  \/ JoinExit
  \/ SortStep
  \/ save_results

HangFairness ==
  /\ WF_vars(StartTask)
  /\ \A k \in Pages : WF_st(k \notin hung /\ OcrEnds(k))
  /\ \A k \in Pages : WF_vars(Cleanup(k))
  /\ \A k \in Pages : WF_vars(Collect(k))
  /\ WF_vars(JoinExit)
  /\ WF_vars(SortStep)
  /\ WF_vars(save_results)

SpecHang == Init /\ [][NextHang]_vars /\ HangFairness

\* =================================================================
\* Properties
\* =================================================================
\* number of page images handed to the pipeline
N == Len(image_files)

\* the sort has run: all_pages_data is the batch
BatchReady == pc \in {"save", "returned", "failed"}

\* indexes of the batch entries for page k
EntriesOf(k) ==
  { i \in 1..Len(all_pages_data) : all_pages_data[i].page_number = k }

\* the OCR call of page k raised / returned a text
OcrRaised(k) == response[k].kind = "raise"
OcrText(k) == response[k].kind = "text"
\* os.remove raised in the finally clause of page k
RemoveRaised(k) == fut[k] = "exception"

\* C1: the batch has exactly N entries with page_number 1..N, each once,
\* ascending, whatever the per-page outcomes (OCR success or failure,
\* post-processing failure, image-deletion failure).
C1_BatchCoversAllPages ==
  BatchReady =>
    /\ Len(all_pages_data) = N
    /\ \A i \in 1..Len(all_pages_data) : all_pages_data[i].page_number = i

\* C2: when the OCR call of exactly one page k raises and every other
\* page's OCR call returns a text, the batch has N-1 entries without error,
\* exactly one entry with error, that one for page k, and every other page
\* has the entry computed from its own text.
C2_FailureIsolation ==
  BatchReady =>
    \A k \in 1..N :
      (OcrRaised(k) /\ \A j \in (1..N) \ {k} : OcrText(j)) =>
        LET errs == { i \in 1..Len(all_pages_data) :
                        HasError(all_pages_data[i]) }
        IN  /\ Cardinality(errs) = 1
            /\ \A i \in errs : all_pages_data[i].page_number = k
            /\ Len(all_pages_data) = N
            /\ \A j \in (1..N) \ {k} :
                 \E i \in 1..Len(all_pages_data) :
                   all_pages_data[i] = PageData(j, response[j].text)

\* the batch as a function of the per-page outcomes alone: in page order,
\* the entry of every page whose future holds a result
ExpectedBatch ==
  LET all == [k \in 1..N |-> [page |-> k, entry |-> PageResult(k, response[k])]]
      kept == SelectSeq(all, LAMBDA x : fut[x.page] = "result")
  IN  [i \in 1..Len(kept) |-> kept[i].entry]

\* C3: with the per-page outcomes fixed, the sorted batch is the same for
\* every interleaving of starts and completions and every pool size: it is
\* the page-ordered list of the per-page results, whatever the order in
\* which they were appended.
C3_BatchIndependentOfCompletionOrder ==
  BatchReady => all_pages_data = ExpectedBatch

\* results were appended out of page order, by two workers, and sorted
C3_Witness ==
  /\ BatchReady
  /\ max_workers >= 2
  /\ Len(all_pages_data) >= 2
  /\ \E i \in 1..Len(completion_order) - 1 :
       /\ completion_order[i] > completion_order[i + 1]
       /\ fut[completion_order[i]] = "result"
       /\ fut[completion_order[i + 1]] = "result"

\* C4: at most max_workers OCR calls are in flight, and at most
\* max_workers tasks are being executed, in every reachable state; a queued
\* task starts only into a free slot.
C4_ConcurrencyBound ==
  /\ Cardinality(InFlight) <= max_workers
  /\ Cardinality(Busy) <= max_workers

\* more pages than workers, every worker inside an OCR call, a page waiting
C4_Witness ==
  /\ N > max_workers
  /\ max_workers >= 2
  /\ Cardinality(InFlight) = max_workers
  /\ Queued # {}

\* C5 as stated: when the pipeline returns, no page_k.png of the run exists.
C5_NoImageRemains ==
  pc = "returned" => files \cap (1..N) = {}

\* C5 amended: once the batch is sorted, the only page images left are
\* those whose os.remove call raised; every other image, of a page that
\* succeeded or failed, is gone.
C5_OnlyFailedRemovalsRemain ==
  BatchReady => \A k \in 1..N : k \in files => RemoveRaised(k)

\* the image of a failed page and the image of a successful page are gone
C5_Witness ==
  /\ pc = "returned"
  /\ \E k \in 1..N : HasError(ret[k]) /\ ~RemoveRaised(k) /\ k \notin files
  /\ \E k \in 1..N : OcrText(k) /\ ~RemoveRaised(k) /\ k \notin files

\* C6: process_single_page never raises: every finished call has returned
\* a result, and on an exception path that result is the error entry of
\* its page.
C6_NeverPropagates ==
  \A k \in Pages :
    st[k] = "done" =>
      /\ fut[k] = "result"
      /\ (response[k].kind # "text" =>
            /\ HasError(ret[k])
            /\ ~ret[k].has_content
            /\ ret[k].page_number = k)

\* C7: a raising os.remove leaves the computed result untouched: the batch
\* holds, for such a page, the entry that was computed before the removal.
C7_CleanupFailureKeepsResult ==
  BatchReady =>
    \A k \in 1..N :
      RemoveRaised(k) =>
        /\ EntriesOf(k) # {}
        /\ \A i \in EntriesOf(k) : all_pages_data[i] = ret[k]

\* C8: a task that cannot be submitted, or a future that yields an
\* exception, gives an error entry for its page; the batch is not aborted
\* and no page is left out.
C8_SchedulerFailuresArePageScoped ==
  /\ pc # "aborted"
  /\ BatchReady =>
       \A k \in 1..N :
         /\ EntriesOf(k) # {}
         /\ fut[k] = "exception" =>
              \A i \in EntriesOf(k) :
                HasError(all_pages_data[i]) /\ ~all_pages_data[i].has_content

\* C9: sort and save_results begin only after every submitted task has
\* finished and has been collected; the batch handed on holds the result
\* of every future that has one.
C9_SingleBlockingJoin ==
  pc \in {"sort", "save", "returned", "failed"} =>
    /\ submitted = N
    /\ \A k \in 1..N : st[k] = "done" /\ fut[k] # "pending"
    /\ Uncollected = {}
    /\ Len(all_pages_data) = Cardinality({ k \in 1..N : fut[k] = "result" })

\* the sort is about to run on a multi-page document
C9_Witness ==
  /\ pc = "sort"
  /\ N >= 2
  /\ max_workers >= 2

\* C10: one submit per page image, at most one OCR call per page, exactly
\* one after a failure, and the error field of an entry is the message of
\* the page's one failure.
C10_OneAttemptPerPage ==
  /\ \A k \in Pages : ocr_calls[k] <= 1 /\ submit_calls[k] <= 1
  /\ pc \notin {"convert", "no_images", "submit", "unwinding", "aborted"} =>
       \A k \in Pages : submit_calls[k] = (IF k <= N THEN 1 ELSE 0)
  /\ \A k \in Pages : OcrRaised(k) => ocr_calls[k] = 1
  /\ BatchReady =>
       \A i \in 1..Len(all_pages_data) :
         HasError(all_pages_data[i]) =>
           all_pages_data[i].error = response[all_pages_data[i].page_number].msg

\* a page whose OCR call raised is in the batch with that message
C10_Witness ==
  /\ BatchReady
  /\ \E k \in 1..N :
       /\ OcrRaised(k)
       /\ ocr_calls[k] = 1
       /\ \E i \in EntriesOf(k) : all_pages_data[i].error = response[k].msg

\* convert_pdf_to_images has ended before it rendered every page: opening
\* the document or rendering a page raised
ConvertFailed == pc # "convert" /\ Len(image_paths) < pageCount

\* C11: when opening the document or rendering a page raises,
\* convert_pdf_to_images returns the empty list, not the paths produced so
\* far, and main submits no task and makes no OCR call.
C11_RasterizationAllOrNothing ==
  ConvertFailed =>
    /\ image_files = <<>>
    /\ pc = "no_images"
    /\ submitted = 0
    /\ \A k \in Pages :
         /\ submit_calls[k] = 0
         /\ ocr_calls[k] = 0
         /\ st[k] = "unsubmitted"
         /\ file_ops[k].readers = {}

\* rendering raised after at least one page had been written
C11_Witness ==
  /\ ConvertFailed
  /\ Len(image_paths) >= 1
  /\ pc = "no_images"

\* C12: the caller of process_pdf_api gets a successful response only with
\* a batch that has one entry per page, in order; when the document could
\* not be rasterized the response is a failure, never a success carrying
\* an empty batch.
C12_BatchOrTopLevelFailure ==
  http_response.status = "200" =>
    /\ ~ConvertFailed
    /\ Len(http_response.transcribe) = pageCount
    /\ \A i \in 1..Len(http_response.transcribe) :
         http_response.transcribe[i].page_number = i

\* the text has been processed
Processed == "page" \in DOMAIN out
CharsOf(s) == { s[i] : i \in 1..Len(s) }
InRecognizedBlock(c) == \E i \in 1..Len(Blocks) : InBlock(c, Blocks[i])

\* C13: a non-empty text with every character in U+0B00..U+0B7F gives
\* exactly ["Odia"]; a text, also the empty one, with no character in a
\* recognized block and no ASCII letter gives exactly ["Unknown"].
C13_OdiaAndUnknown ==
  Processed =>
    /\ (text # <<>> /\ \A c \in CharsOf(text) : 2816 <= c /\ c <= 2943)
         => out.page.detected_languages = <<"Odia">>
    /\ (\A c \in CharsOf(text) : ~InRecognizedBlock(c) /\ ~IsAsciiAlpha(c))
         => out.page.detected_languages = <<"Unknown">>

\* a text of the two ends of the Odia block has been classified
C13_Witness ==
  /\ Processed
  /\ CharsOf(text) = {2816, 2943}
  /\ out.page.detected_languages = <<"Odia">>

\* C14: a text with an ASCII letter and a Devanagari character gets both
\* the Latin label and the Devanagari label.
C14_LatinAndDevanagari ==
  (/\ Processed
   /\ \E c \in CharsOf(text) : IsAsciiAlpha(c)
   /\ \E c \in CharsOf(text) : 2304 <= c /\ c <= 2431)
    => LET langs == CharsOf(out.page.detected_languages)
       IN  "Latin_Script" \in langs /\ "Devanagari_Script" \in langs

\* C15: the list is the canonical sequence of labels restricted to the
\* blocks present in the text, in that order, without repeats; it is never
\* empty and "Unknown" stands alone, exactly when no block matches.
C15_CanonicalOrder ==
  Processed =>
    LET langs == out.page.detected_languages
    IN  /\ langs = detect_languages_in_text_all(text)
        /\ langs # <<>>
        /\ ("Unknown" \in CharsOf(langs)) = (langs = <<"Unknown">>)
        /\ (langs = <<"Unknown">>) =
             (\A c \in CharsOf(text) :
                ~InRecognizedBlock(c) /\ ~IsAsciiAlpha(c))

\* positions that end a line of s: before the text, each line feed, after it
Breaks(s) == {0, Len(s) + 1} \cup { i \in 1..Len(s) : s[i] = NL }
\* the lines of s as pairs of neighbouring breaks
LineSpans(s) ==
  { p \in Breaks(s) \X Breaks(s) :
      p[1] < p[2] /\ ~\E b \in Breaks(s) : p[1] < b /\ b < p[2] }
InkOf(s, p) == { i \in (p[1] + 1)..(p[2] - 1) : s[i] \notin WhiteSpace }
\* the lines with a character that is not white space
InkSpans(s) == { p \in LineSpans(s) : InkOf(s, p) # {} }
\* the j-th of them, from the top
NthInkSpan(s, j) ==
  CHOOSE p \in InkSpans(s) :
    Cardinality({ q \in InkSpans(s) : q[1] < p[1] }) = j - 1
Trimmed(s, p) == SubSeq(s, SetMin(InkOf(s, p)), SetMax(InkOf(s, p)))

\* "Hello\nWorld"
ExampleFullText == <<72, 101, 108, 108, 111, NL, 87, 111, 114, 108, 100>>

\* C16: full_text is the raw text split at line feeds, each line trimmed,
\* empty lines dropped, the rest joined by single line feeds in their
\* order; has_content holds exactly when a line remains, exactly when
\* full_text is not empty; the example text gives "Hello\nWorld"; and
\* normalizing full_text again leaves it unchanged.
C16_Normalization ==
  Processed =>
    LET ft == out.page.full_text
        n == Cardinality(InkSpans(text))
    IN  /\ IF n = 0 THEN ft = <<>>
           ELSE /\ InkSpans(ft) = LineSpans(ft)
                /\ Cardinality(LineSpans(ft)) = n
                /\ \A j \in 1..n :
                     LET p == NthInkSpan(ft, j)
                     IN  SubSeq(ft, p[1] + 1, p[2] - 1)
                           = Trimmed(text, NthInkSpan(text, j))
        /\ out.page.has_content = (n >= 1)
        /\ out.page.has_content = (ft # <<>>)
        /\ text = ExampleText => ft = ExampleFullText /\ out.page.has_content
        /\ "again" \in DOMAIN out => out.again.full_text = ft

\* the example text has been normalized, and its full_text once more
C16_Witness ==
  /\ "again" \in DOMAIN out
  /\ text = ExampleText
  /\ out.page.full_text = ExampleFullText

SuccessShape(e) ==
  /\ {"page_number", "full_text", "has_content", "detected_languages"}
       \subseteq DOMAIN e
  /\ "error" \notin DOMAIN e
  /\ e.has_content \in BOOLEAN
  /\ e.detected_languages # <<>>
ErrorShape(e) ==
  /\ {"page_number", "error", "has_content"} \subseteq DOMAIN e
  /\ "full_text" \notin DOMAIN e
  /\ e.has_content = FALSE

\* C17: every entry of the collected list, and so of the batch, is either
\* a success entry (page_number, full_text, has_content, a non-empty
\* detected_languages, no error) or an error entry (page_number, error,
\* has_content = false, no full_text), never both.
C17_EntryShapes ==
  \A i \in 1..Len(all_pages_data) :
    LET e == all_pages_data[i]
    IN  /\ SuccessShape(e) \/ ErrorShape(e)
        /\ ~("error" \in DOMAIN e /\ "full_text" \in DOMAIN e)
        /\ "error" \in DOMAIN e => ~e.has_content

\* a sorted batch with a success entry and an error entry
C17_Witness ==
  /\ BatchReady
  /\ \E i \in 1..Len(all_pages_data) : SuccessShape(all_pages_data[i])
  /\ \E i \in 1..Len(all_pages_data) : ErrorShape(all_pages_data[i])

\* save_results has run to its end or raised
SaveEnded == pc \in {"returned", "failed"}
ErrorIndexes(data) == { i \in 1..Len(data) : HasError(data[i]) }

\* C18: for every ordered batch, error entries of any message included,
\* save_results completes without raising, the structured listing holds
\* every entry in batch order, and the flattened text holds one block per
\* successful page, none for an error page, in page order.
C18_SaveResultsListsAndBlocks ==
  SaveEnded =>
    /\ pc = "returned"
    /\ artifacts = {"json", "txt"}
    /\ json_out = all_pages_data
    /\ Len(txt_out) = Len(all_pages_data) - Cardinality(ErrorIndexes(all_pages_data))
    /\ \A i \in 1..Len(txt_out) :
         \E j \in 1..Len(all_pages_data) :
           /\ ~HasError(all_pages_data[j])
           /\ txt_out[i].header = all_pages_data[j].page_number
           /\ txt_out[i].body = all_pages_data[j].full_text
    /\ \A i \in 1..Len(txt_out) - 1 : txt_out[i].header < txt_out[i + 1].header

\* the two files as a function of the batch alone
ArtifactsOf(data) ==
  IF \E i \in 1..Len(data) : HasError(data[i]) /\ data[i].error = ""
  THEN [json |-> data, txt |-> <<>>, written |-> {"json"}]
  ELSE [json |-> data,
        txt |-> LET ok == SelectSeq(data, LAMBDA p : ~HasError(p))
                IN  [i \in 1..Len(ok) |-> [header |-> ok[i].page_number,
                                          body |-> ok[i].full_text]],
        written |-> {"json", "txt"}]

\* C19: a repeated save_results call on the same batch leaves the two
\* output files as the call before left them, and the files are a function
\* of the batch alone.
C19_SaveIdempotent ==
  /\ (SaveEnded /\ saves >= 1) => OutputFiles = prev_out
  /\ SaveEnded => OutputFiles = ArtifactsOf(all_pages_data)

\* save_results has run twice on a batch with a success and an error entry
C19_Witness ==
  /\ pc = "returned"
  /\ saves >= 1
  /\ txt_out # <<>>
  /\ ErrorIndexes(all_pages_data) # {}
  /\ OutputFiles = prev_out

\* C20: page_k.png is opened, tested for existence and removed by the task
\* of page k alone, and no file is removed more than once.
C20_ExclusiveFileOwnership ==
  \A f \in Pages :
    /\ file_ops[f].readers \subseteq {f}
    /\ file_ops[f].removers \subseteq {f}
    /\ file_ops[f].removed <= 1

\* two workers at once, each having removed its own file
C20_Witness ==
  /\ max_workers >= 2
  /\ Cardinality(Busy) >= 2
  /\ \E f, g \in Pages :
       /\ f # g
       /\ file_ops[f].readers = {f}
       /\ file_ops[g].readers = {g}
       /\ file_ops[f].removed = 1
       /\ g \in Busy

\* the other of the two runs
Other(r) == 3 - r

\* C21: two runs over one working directory name their images by page
\* number only, so the image of page k has the same name in both runs, and
\* a run's result for page k is an error, its own page k, or the page k of
\* the other run, whose rasterizer has then written that name; the
\* interleaving where this happens is the witness.
C21_SharedNamesInterfere ==
  \A r \in Runs : \A k \in SharedPages :
    /\ (k <= Len(runs[r].image_paths) /\ k <= Len(runs[Other(r)].image_paths))
         => runs[r].image_paths[k] = runs[Other(r)].image_paths[k]
    /\ runs[r].ret[k] # NoResult =>
         \/ HasError(runs[r].ret[k])
         \/ runs[r].ret[k] = PageData(k, TextOf(r, k))
         \/ /\ runs[r].ret[k] = PageData(k, TextOf(Other(r), k))
            /\ k <= Len(runs[Other(r)].image_paths)

\* both runs have returned: the batch of run 1 carries the text of the
\* other document for page 1, the batch of run 2 an error for the file that
\* run 1 removed
C21_Witness ==
  /\ runs[1].pc = "sorted"
  /\ runs[2].pc = "sorted"
  /\ runs[1].all_pages_data # <<>>
  /\ runs[1].all_pages_data[1] = PageData(1, TextOf(2, 1))
  /\ runs[2].all_pages_data # <<>>
  /\ runs[2].all_pages_data[1] = ErrorEntry(1, OpenErrMsg)

\* main has left the with block
PoolLeft == pc \in {"sort", "save", "returned", "failed", "aborted"}

\* C22: a hung OCR call holds its worker slot for ever and keeps the run
\* from returning; while fewer than max_workers calls hang, every queued
\* page that does not hang itself still finishes; once max_workers calls
\* hang, no queued page starts and no result is produced; nothing ends or
\* cancels a hung call.
C22_StallContainment ==
  /\ \A k \in Pages :
       (st[k] = "queued") ~>
          (st[k] = "done" \/ k \in hung \/ Cardinality(hung) >= max_workers)
  /\ [](hung # {} => ~PoolLeft)
  /\ [][ /\ hung \subseteq hung'
         /\ \A k \in hung : st'[k] = "ocr" /\ fut'[k] = "pending"
         /\ Cardinality(hung) = max_workers =>
              /\ \A k \in Pages : st[k] = "queued" => st'[k] = "queued"
              /\ ret' = ret ]_vars

\* one call hangs, a page submitted after it has finished on the other
\* worker, and main waits in the collection loop
C22_Witness ==
  /\ pc = "collect"
  /\ hung # {}
  /\ Cardinality(hung) < max_workers
  /\ \E h \in hung : \E k \in Pages : k > h /\ st[k] = "done"

\* C23: with fair scheduling and every OCR call returning or raising,
\* every queued task finishes and a run whose tasks are all submitted
\* reaches its sorted batch, whatever pages fail; a queued task leaves the
\* queue only by being started.
C23_NoCrossTaskCancellation ==
  /\ \A k \in Pages : (st[k] = "queued") ~> (st[k] = "done")
  /\ (pc = "collect") ~> BatchReady
  /\ [][\A k \in Pages :
          st[k] = "queued" => st'[k] \in {"queued", "ocr", "computed"}]_vars

\* one worker: a page failed, a later page was started after it and its
\* entry is in the batch
C23_Witness ==
  /\ BatchReady
  /\ max_workers = 1
  /\ \E j, k \in 1..N :
       /\ j < k
       /\ ret[j] # NoResult /\ HasError(ret[j])
       /\ ret[k] # NoResult /\ ~HasError(ret[k])
       /\ EntriesOf(k) # {}

\* C24: the detected_languages of a successful page are those the
\* detector finds in the page's normalized full_text, although the code
\* hands it the raw text; for the detector of the sequential variant too;
\* a page without content has ["Unknown"].
C24_DetectionOnNormalizedText ==
  Processed =>
    /\ out.page.detected_languages = detect_languages_in_text(out.page.full_text)
    /\ detect_languages_in_text_all(text)
         = detect_languages_in_text_all(out.page.full_text)
    /\ ~out.page.has_content => out.page.detected_languages = <<"Unknown">>

\* a raw text with white space around a letter, and a raw text of white
\* space only
C24_Witness ==
  /\ Processed
  /\ \/ /\ text # out.page.full_text
        /\ out.page.detected_languages = <<"Latin_Script">>
     \/ /\ text # <<>>
        /\ ~out.page.has_content

\* C25: the rasterizer writes page_1.png .. page_n.png in source order and
\* returns them in that order, the task with page number k opens exactly
\* page_k.png, and every entry with page_number k is what that task built
\* from the OCR outcome of that file.
C25_DenseNumbering ==
  /\ \A i \in 1..Len(image_paths) : image_paths[i] = i
  /\ files \subseteq 1..Len(image_paths)
  /\ \A i \in 1..Len(image_files) : image_files[i] = i
  /\ \A k \in Pages :
       /\ file_ops[k].readers \subseteq {k}
       /\ st[k] \in {"ocr", "computed", "done"} => file_ops[k].readers = {k}
       /\ ret[k] # NoResult => ret[k] = PageResult(k, response[k])
       /\ \A i \in EntriesOf(k) : all_pages_data[i] = ret[k]

\* a batch of several pages whose second entry holds the text read from
\* page_2.png
C25_Witness ==
  /\ BatchReady
  /\ N >= 2
  /\ Len(all_pages_data) >= 2
  /\ all_pages_data[2].page_number = 2
  /\ OcrText(2)
  /\ file_ops[2].readers = {2}

\* the pages as_completed has yielded
Collected == { completion_order[i] : i \in 1..Len(completion_order) }

\* C26: per page the image is opened before the OCR call is issued, the
\* result is computed after the call has ended, the file is tested and
\* removed after the result is computed and never while the call is in
\* flight, the result is delivered to the collector after the removal was
\* attempted, and every removal was attempted before the sort.
C26_PageEventOrder ==
  /\ \A k \in Pages :
       /\ ocr_calls[k] >= 1 => k \in file_ops[image_files[k]].readers
       /\ st[k] = "ocr" =>
            /\ image_files[k] \in files
            /\ k \notin file_ops[image_files[k]].removers
            /\ response[k] = NoResponse /\ ret[k] = NoResult
       /\ ret[k] # NoResult <=> st[k] \in {"computed", "done"}
       /\ ret[k] # NoResult => response[k] # NoResponse
       /\ st[k] = "computed" =>
            /\ k \notin file_ops[image_files[k]].removers
            /\ fut[k] = "pending"
       /\ (st[k] = "done" /\ CLEAN_IMAGES) =>
            k \in file_ops[image_files[k]].removers
       /\ k \in Collected => st[k] = "done"
  /\ pc \in {"sort", "save", "returned", "failed"} =>
       \A k \in 1..N : st[k] = "done"

\* one page delivered after its file was removed while the call of another
\* page is in flight, its file still there
C26_Witness ==
  /\ pc = "collect"
  /\ \E j, k \in 1..N :
       /\ k \in Collected
       /\ file_ops[image_files[k]].removed = 1
       /\ image_files[k] \notin files
       /\ st[j] = "ocr"
       /\ image_files[j] \in files

\* the sequential variant has left its loop
SeqDone == seq_pc = "done"
\* indexes of the sequential list's entries for page k
SeqEntriesOf(k) ==
  { i \in 1..Len(seq_all_pages_data) : seq_all_pages_data[i].page_number = k }
\* os.remove raised in the sequential iteration of page k
SeqRemoveRaised(k) ==
  \E i \in SeqEntriesOf(k) :
    /\ HasError(seq_all_pages_data[i])
    /\ seq_all_pages_data[i].error = RemoveErrMsg

\* C27: for the same per-page OCR outcomes and with every removal
\* succeeding in both, the list of the sequential loop and the sorted batch
\* of the threaded pipeline have the same length and agree position by
\* position on page_number, has_content, full_text (success entries) and
\* error (error entries).
C27_VariantsAgree ==
  ( /\ SeqDone
    /\ \A k \in 1..N : ~RemoveRaised(k) /\ ~SeqRemoveRaised(k) )
  =>
    /\ Len(seq_all_pages_data) = Len(all_pages_data)
    /\ \A i \in 1..Len(all_pages_data) :
         LET s == seq_all_pages_data[i]
             t == all_pages_data[i]
         IN  /\ s.page_number = t.page_number
             /\ s.has_content = t.has_content
             /\ HasError(s) <=> HasError(t)
             /\ HasError(t) => s.error = t.error
             /\ ~HasError(t) => s.full_text = t.full_text

\* both variants have processed several pages, one failed and one read
C27_Witness ==
  /\ SeqDone
  /\ \A k \in 1..N : ~RemoveRaised(k) /\ ~SeqRemoveRaised(k)
  /\ Len(seq_all_pages_data) >= 2
  /\ \E i, j \in 1..Len(seq_all_pages_data) :
       /\ HasError(seq_all_pages_data[i])
       /\ ~HasError(seq_all_pages_data[j])
       /\ seq_all_pages_data[j].has_content

\* C28: after the sequential loop the list holds exactly one entry per
\* page, page_number 1..N ascending, for every combination of outcomes,
\* also when the removal of a successfully processed page's image raises.
C28_SeqOneEntryPerPage ==
  SeqDone =>
    /\ Len(seq_all_pages_data) = pageCount
    /\ \A i \in 1..Len(seq_all_pages_data) :
         seq_all_pages_data[i].page_number = i

\* C29 as stated: with CLEAN_IMAGES the image of a page is removed exactly
\* when its OCR and post-processing succeeded.
C29_SeqRemovedIffSucceeded ==
  (SeqDone /\ CLEAN_IMAGES) =>
    \A k \in 1..pageCount :
      k \notin seq_files <=> response[k].kind = "text"

\* C29: with CLEAN_IMAGES the image of a page is removed exactly when its
\* OCR and post-processing succeeded and os.remove did not raise; the
\* image of a page whose OCR raised stays.
C29_SeqRemovedIffSucceededAndRemovable ==
  (SeqDone /\ CLEAN_IMAGES) =>
    \A k \in 1..pageCount :
      /\ k \notin seq_files <=>
           (response[k].kind = "text" /\ ~SeqRemoveRaised(k))
      /\ response[k].kind # "text" => k \in seq_files

\* a run in which one image was removed, one stayed after its OCR raised
C29_Witness ==
  /\ SeqDone
  /\ \E j, k \in 1..pageCount :
       /\ response[j].kind = "text" /\ j \notin seq_files
       /\ response[k].kind = "raise" /\ k \in seq_files

\* C30: when rasterization raises at page k > 1, the images page_1.png ..
\* page_(k-1).png already written stay on disk: the conversion deletes
\* none, the empty list it returns gives no worker a task on them, and no
\* later step of the run removes them.
C30_PartialImagesStay ==
  (ConvertFailed /\ Len(image_paths) >= 1) =>
    /\ files = 1..Len(image_paths)
    /\ image_files = <<>>
    /\ submitted = 0
    /\ \A k \in Pages :
         /\ st[k] = "unsubmitted"
         /\ file_ops[k].removers = {}
         /\ file_ops[k].removed = 0

\* rendering raised at the last of several pages; the run has ended
C30_Witness ==
  /\ ConvertFailed
  /\ pc = "no_images"
  /\ pageCount >= 2
  /\ Len(image_paths) = pageCount - 1
  /\ files = 1..(pageCount - 1)

====
